---------------------------- MODULE Spec2Model ----------------------------
(***************************************************************************)
(* A model of the oc-proxy gateway (pkg/proxy/proxy.go): the credential    *)
(* extractor GetRequestToken, the decision middleware AuthMiddleware, the  *)
(* forwarder APIProxy, the login handlers Login, Callback and Token, and   *)
(* the error writer handleError, together with the parts of net/http they  *)
(* call (Header, ResponseWriter, SetCookie, Redirect, Request.Cookie).     *)
(*                                                                         *)
(* Go strings are TLA+ strings; the Go slice s[lo:hi] is Slice(s, lo, hi). *)
(* One client (a browser with a cookie jar) sends one request at a time:   *)
(* a handler action serves it whole, then ClientReceive stores the cookie  *)
(* the response set and the client is ready for its next request.          *)
(***************************************************************************)
EXTENDS Integers, Sequences, FiniteSets, TLC

VARIABLES
    s,          \* the Server value (configuration), never assigned after start
    jar,        \* the client's cookie jar: cookie name -> raw cookie value
    pc,         \* "idle": no request in flight; "responded": a response is out
    handler,    \* the handler that served the request in flight
    req,        \* the request as the client sent it
    w,          \* the ResponseWriter of the request in flight
    trace,      \* what the handler did: calls of GetRequestToken, validateToken, next
    upstream    \* what APIProxy relayed to the upstream API server

vars == <<s, jar, pc, handler, req, w, trace, upstream>>

---------------------------------------------------------------------------
(* Bounds of the model. *)

\* longest token, in characters, a client submits to the Token handler
MaxTokenLen == 2

---------------------------------------------------------------------------
(* Go strings and slices. *)

\* s[lo:hi] of a Go string; the caller has checked 0 <= lo <= hi <= len(s)
Slice(str, lo, hi) == SubSeq(str, lo + 1, hi)

\* s[i] of a Go string, as a one-character string
CharAt(str, i) == SubSeq(str, i + 1, i + 1)

\* strings.HasPrefix
HasPrefix(str, p) == Len(str) >= Len(p) /\ Slice(str, 0, Len(p)) = p

\* strings.HasSuffix
HasSuffix(str, p) ==
    Len(str) >= Len(p) /\ Slice(str, Len(str) - Len(p), Len(str)) = p

\* strings.Index for a one-character needle: the first position, or -1
RECURSIVE IndexFrom(_, _, _)
IndexFrom(str, c, i) ==
    IF i >= Len(str) THEN -1
    ELSE IF CharAt(str, i) = c THEN i
    ELSE IndexFrom(str, c, i + 1)

IndexByte(str, c) == IndexFrom(str, c, 0)

\* every string over the alphabet abc of length n
RECURSIVE StringsOfLen(_, _)
StringsOfLen(abc, n) ==
    IF n = 0 THEN {""}
    ELSE {c \o t : c \in abc, t \in StringsOfLen(abc, n - 1)}

StringsUpTo(abc, n) == UNION {StringsOfLen(abc, k) : k \in 0..n}

---------------------------------------------------------------------------
(* net/http Header: a map from header names to lists of values. *)

NoHeader == [k \in {} |-> <<>>]

\* Header.Get: the first value of the header, "" when there is none
HeaderGet(h, k) == IF k \in DOMAIN h /\ Len(h[k]) > 0 THEN h[k][1] ELSE ""

\* Header.Set: replace the header's values by the one value v
HeaderSet(h, k, v) ==
    [x \in DOMAIN h \cup {k} |-> IF x = k THEN <<v>> ELSE h[x]]

\* Header.Add: append v to the header's values
HeaderAdd(h, k, v) ==
    [x \in DOMAIN h \cup {k} |->
        IF x = k THEN (IF k \in DOMAIN h THEN h[k] ELSE <<>>) \o <<v>>
        ELSE h[x]]

HeaderHas(h, k) == k \in DOMAIN h

---------------------------------------------------------------------------
(* net/http ResponseWriter.  Header() is the handler's mutable map; the    *)
(* first WriteHeader fixes the status and snapshots the map into sent, so  *)
(* that later changes of the map are not sent; Write appends to the body.  *)

NewResponseWriter ==
    [header |-> NoHeader, wroteHeader |-> FALSE, status |-> 0,
     sent |-> NoHeader, body |-> ""]

WriteHeader(rw, code) ==
    IF rw.wroteHeader THEN rw
    ELSE [rw EXCEPT !.wroteHeader = TRUE, !.status = code, !.sent = rw.header]

\* w.Header().Set(k, v)
SetHeader(rw, k, v) == [rw EXCEPT !.header = HeaderSet(rw.header, k, v)]

\* w.Header().Add(k, v)
AddHeader(rw, k, v) == [rw EXCEPT !.header = HeaderAdd(rw.header, k, v)]

AppendBody(rw, data) == [rw EXCEPT !.body = rw.body \o data]

\* fmt.Fprintf(w, ...): Write, which writes the status 200 first if none was
Write(rw, data) == AppendBody(WriteHeader(rw, 200), data)

---------------------------------------------------------------------------
(* net/http cookies.  The characters the model's strings are made of are   *)
(* printable ASCII, so the only bytes a cookie value may not hold are the  *)
(* double quote, the semicolon and the backslash.                          *)

ocgateSessionCookieName == "ocgate-session-token"

InvalidCookieValueBytes == {"\"", ";", "\\"}

\* sanitizeOrWarn: the string without the bytes a cookie value may not hold
RECURSIVE DropInvalidBytes(_)
DropInvalidBytes(v) ==
    IF v = "" THEN ""
    ELSE LET c == CharAt(v, 0)
             rest == DropInvalidBytes(Slice(v, 1, Len(v)))
         IN  IF c \in InvalidCookieValueBytes THEN rest ELSE c \o rest

\* sanitizeCookieValue: invalid bytes dropped; quoted when a space or comma is left
QuoteIfNeeded(clean) ==
    IF clean = "" THEN ""
    ELSE IF IndexByte(clean, " ") >= 0 \/ IndexByte(clean, ",") >= 0
         THEN "\"" \o clean \o "\""
         ELSE clean

sanitizeCookieValue(v) == QuoteIfNeeded(DropInvalidBytes(v))

\* Cookie.String of &http.Cookie{Name, Value, Path: "/", SameSite: Lax, HttpOnly: true}
CookieString(name, value) ==
    name \o "=" \o sanitizeCookieValue(value) \o "; Path=/; HttpOnly; SameSite=Lax"

\* http.SetCookie(w, &http.Cookie{Name: name, Value: value, ...})
SetCookie(rw, name, value) == AddHeader(rw, "Set-Cookie", CookieString(name, value))

\* the value of a Set-Cookie line, as a client stores it: the text between the
\* first "=" and the first ";" (a browser keeps the quotes)
SetCookieName(line) == Slice(line, 0, IndexByte(line, "="))

UpToSemicolon(rest, semi) == IF semi < 0 THEN rest ELSE Slice(rest, 0, semi)

UpToFirstSemicolon(rest) == UpToSemicolon(rest, IndexByte(rest, ";"))

SetCookieRawValue(line) ==
    UpToFirstSemicolon(Slice(line, IndexByte(line, "=") + 1, Len(line)))

\* textproto.TrimString for the spaces around one part of a Cookie header
RECURSIVE TrimLeft(_)
TrimLeft(str) ==
    IF str # "" /\ CharAt(str, 0) = " " THEN TrimLeft(Slice(str, 1, Len(str)))
    ELSE str

RECURSIVE TrimRight(_)
TrimRight(str) ==
    IF str # "" /\ CharAt(str, Len(str) - 1) = " "
    THEN TrimRight(Slice(str, 0, Len(str) - 1))
    ELSE str

TrimString(str) == TrimRight(TrimLeft(str))

\* parseCookieValue(raw, allowDoubleQuote = true): surrounding quotes stripped,
\* then refused when an invalid byte is left
CheckedCookieValue(v) == [ok |-> DropInvalidBytes(v) = v, value |-> v]

parseCookieValue(raw) ==
    IF Len(raw) > 1 /\ CharAt(raw, 0) = "\"" /\ CharAt(raw, Len(raw) - 1) = "\""
    THEN CheckedCookieValue(Slice(raw, 1, Len(raw) - 1))
    ELSE CheckedCookieValue(raw)

\* one cookie of readCookies: kept when it has the name asked for and its
\* value is not refused
CookieOf(name, pv, filter) ==
    IF name # filter \/ ~pv.ok THEN <<>>
    ELSE <<[Name |-> name, Value |-> pv.value]>>

\* one part of the Cookie header line, cut at its first "=" (at eq); a part
\* without "=" is a cookie with an empty value
CookiePart(part, eq, filter) ==
    IF part = "" THEN <<>>
    ELSE IF eq < 0 THEN CookieOf(part, parseCookieValue(""), filter)
    ELSE CookieOf(Slice(part, 0, eq), parseCookieValue(Slice(part, eq + 1, Len(part))),
                  filter)

CookiePartOf(part, filter) == CookiePart(part, IndexByte(part, "="), filter)

\* readCookies(h, filter): the cookies named filter in the Cookie header line, in
\* order, the line being cut at each ";"
RECURSIVE readCookies(_, _)
readCookiesAt(line, semi, filter) ==
    IF semi < 0 THEN CookiePartOf(TrimString(line), filter)
    ELSE CookiePartOf(TrimString(Slice(line, 0, semi)), filter)
         \o readCookies(Slice(line, semi + 1, Len(line)), filter)

readCookies(line, filter) ==
    IF TrimString(line) = "" THEN <<>>
    ELSE readCookiesAt(line, IndexByte(line, ";"), filter)

\* Request.Cookie(name): the first cookie of that name, or ErrNoCookie
FirstCookie(found) ==
    IF Len(found) > 0 THEN [Value |-> found[1].Value, err |-> ""]
    ELSE [Value |-> "", err |-> "http: named cookie not present"]

RequestCookie(r, name) == FirstCookie(readCookies(HeaderGet(r.header, "Cookie"), name))

---------------------------------------------------------------------------
(* net/http Redirect and the path and URL functions it uses. *)

Letters ==
    {"a", "b", "c", "d", "e", "f", "g", "h", "i", "j", "k", "l", "m",
     "n", "o", "p", "q", "r", "s", "t", "u", "v", "w", "x", "y", "z",
     "A", "B", "C", "D", "E", "F", "G", "H", "I", "J", "K", "L", "M",
     "N", "O", "P", "Q", "R", "S", "T", "U", "V", "W", "X", "Y", "Z"}

SchemeMarks == {"0", "1", "2", "3", "4", "5", "6", "7", "8", "9", "+", "-", "."}

\* url.getScheme: the length of the scheme before the first ":", 0 when the
\* string has no scheme, -1 when it begins with ":" (url.Parse fails)
RECURSIVE SchemeLen(_, _)
SchemeLen(url, i) ==
    IF i >= Len(url) THEN 0
    ELSE LET c == CharAt(url, i) IN
         IF c \in Letters THEN SchemeLen(url, i + 1)
         ELSE IF c \in SchemeMarks THEN (IF i = 0 THEN 0 ELSE SchemeLen(url, i + 1))
         ELSE IF c = ":" THEN (IF i = 0 THEN -1 ELSE i)
         ELSE 0

\* the position of the last "/" of the string, or -1
RECURSIVE LastSlash(_, _)
LastSlash(str, i) ==
    IF i < 0 THEN -1
    ELSE IF CharAt(str, i) = "/" THEN i
    ELSE LastSlash(str, i - 1)

\* path.Split: the directory part, up to and including the last slash
PathDir(p) == Slice(p, 0, LastSlash(p, Len(p) - 1) + 1)

\* the elements of a path between its slashes, in order
RECURSIVE PathElements(_)
PathElements(p) ==
    IF p = "" THEN <<>>
    ELSE LET sl == IndexByte(p, "/") IN
         IF sl < 0 THEN <<p>>
         ELSE <<Slice(p, 0, sl)>> \o PathElements(Slice(p, sl + 1, Len(p)))

\* path.Clean's pass over the elements: "" and "." are dropped, ".." removes
\* the element before it (at the root it is dropped; in a relative path with
\* nothing left to remove it is kept)
RECURSIVE CleanElements(_, _, _)
CleanElements(elems, out, rooted) ==
    IF elems = <<>> THEN out
    ELSE LET e == Head(elems)
             rest == Tail(elems)
         IN  IF e = "" \/ e = "." THEN CleanElements(rest, out, rooted)
             ELSE IF e = ".."
                  THEN IF out # <<>> /\ out[Len(out)] # ".."
                       THEN CleanElements(rest, SubSeq(out, 1, Len(out) - 1), rooted)
                       ELSE IF rooted THEN CleanElements(rest, out, rooted)
                       ELSE CleanElements(rest, Append(out, e), rooted)
                  ELSE CleanElements(rest, Append(out, e), rooted)

RECURSIVE JoinElements(_)
JoinElements(elems) ==
    IF elems = <<>> THEN ""
    ELSE IF Len(elems) = 1 THEN elems[1]
    ELSE elems[1] \o "/" \o JoinElements(Tail(elems))

\* path.Clean: a rooted path keeps its leading slash; an empty result is "."
CleanResult(rooted, body) ==
    IF rooted THEN "/" \o body
    ELSE IF body = "" THEN "." ELSE body

CleanRooted(p, rooted) ==
    CleanResult(rooted, JoinElements(CleanElements(PathElements(p), <<>>, rooted)))

PathClean(p) == IF p = "" THEN "." ELSE CleanRooted(p, CharAt(p, 0) = "/")

\* htmlEscape of http.Redirect's body, one character
htmlEscapeByte(c) ==
    CASE c = "&"  -> "&amp;"
      [] c = "<"  -> "&lt;"
      [] c = ">"  -> "&gt;"
      [] c = "\"" -> "&#34;"
      [] c = "'"  -> "&#39;"
      [] OTHER    -> c

\* htmlEscape: every character replaced by its escape (the string is split in
\* halves so that the evaluation stays shallow)
RECURSIVE htmlEscape(_)
htmlEscape(str) ==
    IF Len(str) <= 1 THEN htmlEscapeByte(str)
    ELSE LET half == Len(str) \div 2 IN
         htmlEscape(Slice(str, 0, half)) \o htmlEscape(Slice(str, half, Len(str)))

\* http.StatusText, for the statuses the handlers use
StatusText(code) ==
    CASE code = 302 -> "Found"
      [] code = 307 -> "Temporary Redirect"
      [] code = 401 -> "Unauthorized"
      [] code = 403 -> "Forbidden"
      [] OTHER      -> ""

\* http.Redirect's cleaning of a path: path.Clean, the trailing slash kept
KeepTrailingSlash(path, clean) ==
    IF HasSuffix(path, "/") /\ ~HasSuffix(clean, "/") THEN clean \o "/" ELSE clean

CleanKeepingSlash(path) == KeepTrailingSlash(path, PathClean(path))

\* the path of abs cleaned, the query (from the "?" at q) kept as it is
CleanBeforeQuery(abs, q) ==
    IF q < 0 THEN CleanKeepingSlash(abs)
    ELSE CleanKeepingSlash(Slice(abs, 0, q)) \o Slice(abs, q, Len(abs))

\* the Location http.Redirect sends for url, asked for by a request to oldpath:
\* a URL with a scheme or a host (or one url.Parse refuses) is sent as it is; any other is
\* made absolute against the directory of oldpath and cleaned, its query kept
AbsoluteLocation(abs) == CleanBeforeQuery(abs, IndexByte(abs, "?"))

\* url.Parse finds a host in a URL without scheme: it begins with "//" (not
\* "///") and names an authority before the path, the query or the fragment
HasAuthority(url) ==
    /\ HasPrefix(url, "//")
    /\ Len(url) > 2
    /\ CharAt(url, 2) \notin {"/", "?", "#"}

RedirectLocation(url, oldpath) ==
    IF SchemeLen(url, 0) # 0 \/ HasAuthority(url) THEN url
    ELSE IF url = "" \/ CharAt(url, 0) # "/"
         THEN AbsoluteLocation(PathDir(IF oldpath = "" THEN "/" ELSE oldpath) \o url)
         ELSE AbsoluteLocation(url)

\* http.Redirect once the Location is known: the headers, the status, and for
\* a GET a short body; hadCT is whether the handler had set a Content-Type
RedirectBody(rw, r, loc, code, hadCT) ==
    IF ~hadCT /\ r.method = "GET"
    THEN Write(rw, "<a href=\"" \o htmlEscape(loc) \o "\">" \o StatusText(code) \o "</a>.\n\n")
    ELSE rw

RedirectHeaders(rw, r, hadCT) ==
    IF ~hadCT /\ r.method \in {"GET", "HEAD"}
    THEN SetHeader(rw, "Content-Type", "text/html; charset=utf-8")
    ELSE rw

RedirectTo(rw, r, loc, code, hadCT) ==
    RedirectBody(WriteHeader(RedirectHeaders(SetHeader(rw, "Location", loc), r, hadCT),
                             code),
                 r, loc, code, hadCT)

\* http.Redirect(w, r, url, code)
Redirect(rw, r, url, code) ==
    RedirectTo(rw, r, RedirectLocation(url, r.path), code,
               HeaderHas(rw.header, "Content-Type"))

\* http.DetectContentType, for the bodies the handlers write: markup that
\* begins with a tag is HTML, any other text is plain text
DetectContentType(data) ==
    IF HasPrefix(TrimLeft(data), "<") THEN "text/html; charset=utf-8"
    ELSE "text/plain; charset=utf-8"

\* the response the client receives: the status and the headers as they were
\* when the status was written, a Content-Type sniffed from the body when the
\* handler had set none by then, and the body
Delivered(rw) ==
    [status |-> rw.status,
     header |-> IF ~HeaderHas(rw.sent, "Content-Type") /\ rw.body # ""
                THEN HeaderSet(rw.sent, "Content-Type", DetectContentType(rw.body))
                ELSE rw.sent,
     body   |-> rw.body]

\* url.Values.Get: the first value of the parameter, "" when there is none
ValuesGet(values, k) == IF k \in DOMAIN values THEN values[k] ELSE ""

\* Request.FormValue: the body's value of the parameter comes before the query's
FormValue(r, k) == IF k \in DOMAIN r.form THEN r.form[k] ELSE ValuesGet(r.query, k)

\* url.Parse of an absolute URL: scheme "://" host path; auth is what follows
\* the "//" and sl the position of its first slash
SplitAuthority(scheme, auth, sl) ==
    [Scheme |-> scheme,
     Host   |-> IF sl < 0 THEN auth ELSE Slice(auth, 0, sl),
     Path   |-> IF sl < 0 THEN "" ELSE Slice(auth, sl, Len(auth))]

ParseAfterScheme(scheme, rest) ==
    IF HasPrefix(rest, "//")
    THEN SplitAuthority(scheme, Slice(rest, 2, Len(rest)),
                        IndexByte(Slice(rest, 2, Len(rest)), "/"))
    ELSE [Scheme |-> scheme, Host |-> "", Path |-> rest]

ParseWithScheme(raw, n) ==
    IF n > 0 THEN ParseAfterScheme(Slice(raw, 0, n), Slice(raw, n + 1, Len(raw)))
    ELSE ParseAfterScheme("", raw)

ParseURL(raw) == ParseWithScheme(raw, SchemeLen(raw, 0))

\* httputil's singleJoiningSlash, which the reverse proxy's director applies to
\* the target's path and the request's path
singleJoiningSlash(a, b) ==
    LET aslash == HasSuffix(a, "/")
        bslash == HasPrefix(b, "/")
    IN  IF aslash /\ bslash THEN a \o Slice(b, 1, Len(b))
        ELSE IF ~aslash /\ ~bslash THEN a \o "/" \o b
        ELSE a \o b

---------------------------------------------------------------------------
(* The Server value. *)

APIPathChoices == {"/k8s/", "/k8s"}

\* the verification key material: a symmetric key, an RSA public key, or none
KeyChoices ==
    {[JWTTokenKey |-> "secret", JWTTokenRSAKey |-> ""],
     [JWTTokenKey |-> "", JWTTokenRSAKey |-> "rsa-public-key"],
     [JWTTokenKey |-> "", JWTTokenRSAKey |-> ""]}

Servers ==
    {[APIPath |-> ap,
      APIServerURL |-> "https://kubernetes.default.svc",
      Auth2Config |-> [AuthURL |-> "https://oauth.example/authorize",
                       ClientID |-> "kube-gateway-client"],
      LoginEndpoint |-> "/auth/login",
      BearerToken |-> "K",
      BearerTokenPassthrough |-> pt,
      JWTTokenKey |-> k.JWTTokenKey,
      JWTTokenRSAKey |-> k.JWTTokenRSAKey,
      InteractiveAuth |-> ia] :
        ap \in APIPathChoices, pt \in BOOLEAN, ia \in BOOLEAN, k \in KeyChoices}

---------------------------------------------------------------------------
(* validateToken.  A token is a signed set of claims; the tokens of the    *)
(* model are named by short strings, and JWTClaims gives what each holds.  *)

WellFormedTokens == {"v", "r", "g", "e", "K"}

JWTClaims(token) ==
    CASE token = "v" -> [signer |-> "hmac", expired |-> FALSE, scoped |-> FALSE,
                         methods |-> {}, path |-> ""]
      [] token = "r" -> [signer |-> "rsa", expired |-> FALSE, scoped |-> FALSE,
                         methods |-> {}, path |-> ""]
      [] token = "g" -> [signer |-> "hmac", expired |-> FALSE, scoped |-> TRUE,
                         methods |-> {"GET"}, path |-> "/k8s/pods"]
      [] token = "e" -> [signer |-> "hmac", expired |-> TRUE, scoped |-> FALSE,
                         methods |-> {}, path |-> ""]
      [] token = "K" -> [signer |-> "cluster", expired |-> FALSE, scoped |-> FALSE,
                         methods |-> {}, path |-> ""]

\* validateToken(token, key, rsaKey, apiPath, method, path): "" when the token
\* authorizes the method and path, else the error
validateToken(token, key, rsaKey, apiPath, method, path) ==
    IF token \notin WellFormedTokens
    THEN "token contains an invalid number of segments"
    ELSE LET c == JWTClaims(token) IN
         IF rsaKey # "" /\ c.signer # "rsa" THEN "crypto/rsa: verification error"
         ELSE IF rsaKey = "" /\ key # "" /\ c.signer # "hmac" THEN "signature is invalid"
         ELSE IF rsaKey = "" /\ key = "" THEN "key is of invalid type"
         ELSE IF c.expired THEN "Token is expired"
         ELSE IF c.scoped /\ method \notin c.methods THEN "token not valid for method"
         ELSE IF c.scoped /\ ~HasPrefix(path, c.path) THEN "token not valid for path"
         ELSE ""

---------------------------------------------------------------------------
(* The handlers of pkg/proxy/proxy.go.  Each is an operator from the       *)
(* Server value and the request to what the handler did: the               *)
(* ResponseWriter as it left it, the trace of its calls, and what the      *)
(* forwarder relayed.                                                      *)

NoTrace ==
    [extracted |-> FALSE, token |-> "", cookieRead |-> FALSE,
     validated |-> <<>>, next |-> <<>>]

NotRelayed ==
    [state |-> "none", Scheme |-> "", Host |-> "", URLPath |-> "", Path |-> "",
     method |-> "", header |-> NoHeader]

\* handleError(w, err)
handleError(rw, err) ==
    Write(SetHeader(WriteHeader(rw, 403), "Content-Type", "application/json"),
          "{\"kind\": \"Status\", \"api\": \"ocgate\", \"status\": \"Forbidden\", \"message\": \""
          \o err \o "\",\"code\": 403}")

\* TokenOfCookie with the test of the cookie's value inverted
TokenOfCookieInverted(cookie) ==
    IF cookie.err # "" \/ cookie.Value # ""
    THEN [token |-> "", err |-> cookie.err, cookieRead |-> TRUE]
    ELSE [token |-> cookie.Value, err |-> "", cookieRead |-> TRUE]

\* GetRequestToken(r) when the Authorization header holds no bearer token: the
\* session cookie, if the request has it and it is not empty
TokenOfCookie(cookie) ==
    IF cookie.err # "" \/ cookie.Value = ""
    THEN [token |-> "", err |-> cookie.err, cookieRead |-> TRUE]
    ELSE [token |-> cookie.Value, err |-> "", cookieRead |-> TRUE]

\* TokenOfHeader with the session cookie tried before the Authorization header
TokenOfHeaderCookieFirst(authorization, r) ==
    IF RequestCookie(r, ocgateSessionCookieName).Value # ""
    THEN TokenOfCookie(RequestCookie(r, ocgateSessionCookieName))
    ELSE IF Len(authorization) > 7 /\ Slice(authorization, 0, 7) = "Bearer "
    THEN [token |-> Slice(authorization, 7, Len(authorization)), err |-> "",
          cookieRead |-> TRUE]
    ELSE [token |-> "", err |-> "http: named cookie not present", cookieRead |-> TRUE]

TokenOfHeader(authorization, r) ==
    IF Len(authorization) > 7 /\ Slice(authorization, 0, 7) = "Bearer "
    THEN [token |-> Slice(authorization, 7, Len(authorization)), err |-> "",
          cookieRead |-> FALSE]
    ELSE TokenOfCookie(RequestCookie(r, ocgateSessionCookieName))

\* GetRequestToken(r): the token, the error, and whether the cookie was read
GetRequestToken(r) == TokenOfHeader(HeaderGet(r.header, "Authorization"), r)

\* the request the reverse proxy relays: its director joins the target's path
\* and the request's (rewritten) path
Relayed(url, path, r) ==
    [state   |-> "relayed",
     Scheme  |-> url.Scheme,
     Host    |-> url.Host,
     URLPath |-> path,
     Path    |-> singleJoiningSlash(url.Path, path),
     method  |-> r.method,
     header  |-> r.header]

\* ProxyTo without the rewrite of the path
ProxyToWithoutStrip(url, lo, r) == Relayed(url, r.path, r)

\* the handler APIProxy returns, url being the parsed APIServerURL: the
\* request's host, scheme and path are rewritten and the reverse proxy relays
\* it; a slice bound out of range panics
ProxyTo(url, lo, r) ==
    IF lo < 0 \/ lo > Len(r.path)
    THEN [NotRelayed EXCEPT !.state = "panic"]
    ELSE Relayed(url, Slice(r.path, lo, Len(r.path)), r)

APIProxy(srv, r) == ProxyTo(ParseURL(srv.APIServerURL), Len(srv.APIPath) - 1, r)

\* next.ServeHTTP(w, r), next being the handler of APIProxy; the upstream's
\* answer is relayed by the reverse proxy and is not part of the model
ServeNext(srv, rw, r, tr) ==
    [w |-> rw, trace |-> [tr EXCEPT !.next = Append(@, r)], upstream |-> APIProxy(srv, r)]

\* a handler's answer that is not forwarded
Answer(rw, tr) == [w |-> rw, trace |-> tr, upstream |-> NotRelayed]

\* r with its Authorization header set to "Bearer <token>"
WithBearer(r, token) ==
    [r EXCEPT !.header = HeaderSet(@, "Authorization", "Bearer " \o token)]

\* Validated with the return after handleError left out: the error is written
\* and the request is forwarded all the same
ValidatedWithoutReturn(srv, r, token, tr, err) ==
    IF err # ""
    THEN ServeNext(srv, handleError(NewResponseWriter, err),
                   WithBearer(r, srv.BearerToken), tr)
    ELSE ServeNext(srv, NewResponseWriter, WithBearer(r, srv.BearerToken), tr)

\* Validated forwarding the caller's token in place of the operator token
ValidatedWithCallerToken(srv, r, token, tr, err) ==
    IF err # ""
    THEN Answer(handleError(NewResponseWriter, err), tr)
    ELSE ServeNext(srv, NewResponseWriter, WithBearer(r, token), tr)

\* AuthMiddleware after validateToken returned err
Validated(srv, r, token, tr, err) ==
    IF err # ""
    THEN Answer(handleError(NewResponseWriter, err), tr)
    ELSE ServeNext(srv, NewResponseWriter, WithBearer(r, srv.BearerToken), tr)

\* the trace with a call of validateToken that returned err
TraceValidated(tr, r, token, err) ==
    [tr EXCEPT !.validated =
        Append(@, [token |-> token, method |-> r.method, path |-> r.path, err |-> err])]

Validate(srv, r, token, tr, err) ==
    Validated(srv, r, token, TraceValidated(tr, r, token, err), err)

\* Authorize with the static-path rule tried before the pass-through rule
AuthorizeStaticFirst(srv, r, token, tr) ==
    IF srv.InteractiveAuth /\ token = ""
    THEN Answer(Redirect(NewResponseWriter, r, srv.LoginEndpoint, 307), tr)
    ELSE IF token = ""
    THEN Answer(handleError(NewResponseWriter, "no token received"), tr)
    ELSE IF Len(r.path) <= Len(srv.APIPath)
            \/ Slice(r.path, 0, Len(srv.APIPath)) # srv.APIPath
    THEN ServeNext(srv, NewResponseWriter, r, tr)
    ELSE IF srv.BearerTokenPassthrough
    THEN ServeNext(srv, NewResponseWriter, WithBearer(r, token), tr)
    ELSE Validate(srv, r, token, tr,
                  validateToken(token, srv.JWTTokenKey, srv.JWTTokenRSAKey,
                                srv.APIPath, r.method, r.path))

\* Authorize without the rule that answers an empty token with an error
AuthorizeWithoutEmptyRule(srv, r, token, tr) ==
    IF srv.InteractiveAuth /\ token = ""
    THEN Answer(Redirect(NewResponseWriter, r, srv.LoginEndpoint, 307), tr)
    ELSE IF srv.BearerTokenPassthrough
    THEN ServeNext(srv, NewResponseWriter, WithBearer(r, token), tr)
    ELSE IF Len(r.path) <= Len(srv.APIPath)
            \/ Slice(r.path, 0, Len(srv.APIPath)) # srv.APIPath
    THEN ServeNext(srv, NewResponseWriter, r, tr)
    ELSE Validate(srv, r, token, tr,
                  validateToken(token, srv.JWTTokenKey, srv.JWTTokenRSAKey,
                                srv.APIPath, r.method, r.path))

\* Authorize without the rule for the paths outside APIPath: every request
\* with a credential is verified
AuthorizeWithoutStaticRule(srv, r, token, tr) ==
    IF srv.InteractiveAuth /\ token = ""
    THEN Answer(Redirect(NewResponseWriter, r, srv.LoginEndpoint, 307), tr)
    ELSE IF token = ""
    THEN Answer(handleError(NewResponseWriter, "no token received"), tr)
    ELSE IF srv.BearerTokenPassthrough
    THEN ServeNext(srv, NewResponseWriter, WithBearer(r, token), tr)
    ELSE Validate(srv, r, token, tr,
                  validateToken(token, srv.JWTTokenKey, srv.JWTTokenRSAKey,
                                srv.APIPath, r.method, r.path))

\* AuthMiddleware after GetRequestToken returned token
Authorize(srv, r, token, tr) ==
    IF srv.InteractiveAuth /\ token = ""
    THEN Answer(Redirect(NewResponseWriter, r, srv.LoginEndpoint, 307), tr)
    ELSE IF token = ""
    THEN Answer(handleError(NewResponseWriter, "no token received"), tr)
    ELSE IF srv.BearerTokenPassthrough
    THEN ServeNext(srv, NewResponseWriter, WithBearer(r, token), tr)
    ELSE IF Len(r.path) <= Len(srv.APIPath)
            \/ Slice(r.path, 0, Len(srv.APIPath)) # srv.APIPath
    THEN ServeNext(srv, NewResponseWriter, r, tr)
    ELSE Validate(srv, r, token, tr,
                  validateToken(token, srv.JWTTokenKey, srv.JWTTokenRSAKey,
                                srv.APIPath, r.method, r.path))

\* the trace with a call of GetRequestToken that returned got
TraceExtracted(got) ==
    [NoTrace EXCEPT !.extracted = TRUE, !.token = got.token,
                    !.cookieRead = got.cookieRead]

Extracted(srv, r, got) == Authorize(srv, r, got.token, TraceExtracted(got))

\* AuthMiddleware without the rule for the login page
AuthMiddlewareWithoutLoginRule(srv, r) == Extracted(srv, r, GetRequestToken(r))

\* the handler AuthMiddleware(next) returns
AuthMiddleware(srv, r) ==
    IF r.path = "/login.html" THEN ServeNext(srv, NewResponseWriter, r, NoTrace)
    ELSE Extracted(srv, r, GetRequestToken(r))

\* Submitted with the cookie set after the redirect is written
SubmittedCookieAfterRedirect(r, token, then) ==
    IF token = ""
    THEN Answer(handleError(NewResponseWriter, "token parameter is missing"), NoTrace)
    ELSE Answer(SetCookie(Redirect(NewResponseWriter, r, IF then = "" THEN "/" ELSE then,
                                   302),
                          ocgateSessionCookieName, token),
                NoTrace)

\* Submitted without the rule for the empty token
SubmittedWithoutEmptyRule(r, token, then) ==
    Answer(Redirect(SetCookie(NewResponseWriter, ocgateSessionCookieName, token),
                    r, IF then = "" THEN "/" ELSE then, 302),
           NoTrace)

\* Server.Token once the token and the target are read from the request
Submitted(r, token, then) ==
    IF token = ""
    THEN Answer(handleError(NewResponseWriter, "token parameter is missing"), NoTrace)
    ELSE Answer(Redirect(SetCookie(NewResponseWriter, ocgateSessionCookieName, token),
                         r, IF then = "" THEN "/" ELSE then, 302),
                NoTrace)

\* Server.Token
Token(srv, r) ==
    IF r.method = "POST" THEN Submitted(r, FormValue(r, "token"), FormValue(r, "then"))
    ELSE IF r.method = "GET"
    THEN Submitted(r, ValuesGet(r.query, "token"), ValuesGet(r.query, "then"))
    ELSE Submitted(r, "", "")

\* oauth2.Config.AuthCodeURL(state, AccessTypeOnline, ApprovalForce): the
\* parameters in the order url.Values.Encode writes them, sorted by name
AuthCodeURL(conf, state) ==
    conf.AuthURL \o "?access_type=online&client_id=" \o conf.ClientID
        \o "&prompt=consent&response_type=code&state=" \o state

\* Login without the Set-Cookie that empties the session cookie
LoginWithoutClear(srv, r) ==
    Answer(Redirect(NewResponseWriter, r, AuthCodeURL(srv.Auth2Config, "sessionID"), 302),
           NoTrace)

\* Server.Login
Login(srv, r) ==
    Answer(Redirect(SetCookie(NewResponseWriter, ocgateSessionCookieName, ""),
                    r, AuthCodeURL(srv.Auth2Config, "sessionID"), 302),
           NoTrace)

\* Callback without the test of the error Exchange returned
CallbackIgnoringError(srv, r, tok) ==
    Answer(Redirect(SetCookie(NewResponseWriter, ocgateSessionCookieName,
                              tok.AccessToken),
                    r, "/", 302),
           NoTrace)

\* Server.Callback; tok is what conf.Exchange returned: an error, or an access token
Callback(srv, r, tok) ==
    IF tok.err # ""
    THEN Answer(Redirect(NewResponseWriter, r, srv.LoginEndpoint, 401), NoTrace)
    ELSE Answer(Redirect(SetCookie(NewResponseWriter, ocgateSessionCookieName,
                                   tok.AccessToken),
                         r, "/", 302),
                NoTrace)

---------------------------------------------------------------------------
(* The client: what it sends and how it stores the cookies it is sent. *)

NoValues == [k \in {} |-> ""]

NoCookies == [k \in {} |-> ""]

NoRequest ==
    [method |-> "", path |-> "", header |-> NoHeader, query |-> NoValues,
     form |-> NoValues]

\* the Cookie header line of a request: the cookie of another application, if
\* the client has one, then the session cookie of the jar
CookieLine(cookies, other) ==
    LET session == IF ocgateSessionCookieName \in DOMAIN cookies
                   THEN ocgateSessionCookieName \o "=" \o cookies[ocgateSessionCookieName]
                   ELSE ""
    IN  IF other # "" /\ session # "" THEN other \o "; " \o session
        ELSE other \o session

ClientRequest(method, path, authorization, other, query, form) ==
    LET line == CookieLine(jar, other) IN
    [method |-> method, path |-> path,
     header |-> IF line = "" THEN authorization
                ELSE HeaderSet(authorization, "Cookie", line),
     query |-> query, form |-> form]

\* the jar after the Set-Cookie lines of a response, each stored under its name
RECURSIVE StoreCookies(_, _)
StoreCookies(cookies, lines) ==
    IF lines = <<>> THEN cookies
    ELSE LET name == SetCookieName(Head(lines))
             value == SetCookieRawValue(Head(lines))
         IN  StoreCookies([n \in DOMAIN cookies \cup {name} |->
                              IF n = name THEN value ELSE cookies[n]],
                          Tail(lines))

Methods == {"GET", "DELETE"}

Paths ==
    {"/login.html", "/", "/index.html", "/k8s", "/k8s/", "/k8s/pods", "/k8s//pods",
     "/k8sx"}

AuthorizationChoices ==
    {NoHeader} \cup
    {HeaderSet(NoHeader, "Authorization", v) :
        v \in {"Bearer ", "Bearer v", "Bearer r", "Bearer g", "Bearer e", "Bearer K",
               "bearer v"}}

OtherCookies == {"", "other=v"}

\* the characters of the tokens a client submits: one of a valid token, one a
\* cookie value may not hold, and one that makes a cookie value quoted
TokenAlphabet == {"v", ";", " "}

SubmittedTokens == StringsUpTo(TokenAlphabet, MaxTokenLen)

ThenChoices == {"", "/dash", "dash", "/a/../b", "//evil/x", "https://x/y"}

TokenParams == {NoValues} \cup {"token" :> tk : tk \in SubmittedTokens}

ThenParams == {NoValues} \cup {"then" :> th : th \in ThenChoices}

\* the parameters of a submission: every token with and without a target, and
\* every target with a token that is stored as it is, one that is not, and none
Submissions ==
    {tp @@ thp : tp \in TokenParams, thp \in {NoValues, "then" :> "/dash"}}
    \cup {tp @@ thp : tp \in {NoValues, "token" :> "v", "token" :> "v;"},
                      thp \in ThenParams}

\* the requests to the Token handler: a GET with the parameters in the query, a
\* POST with them in the form (and, for some, a token in the query too), and a
\* request of another method
TokenRequests ==
    {[method |-> "GET", query |-> q, form |-> NoValues] : q \in Submissions}
    \cup {[method |-> "POST", query |-> NoValues, form |-> f] : f \in Submissions}
    \cup {[method |-> "POST", query |-> "token" :> "v" @@ "then" :> "/q", form |-> f] :
            f \in {NoValues, "token" :> "", "token" :> "vv", "then" :> "/dash"}}
    \cup {[method |-> "PUT", query |-> q, form |-> q] :
            q \in {"token" :> "v" @@ "then" :> "/dash"}}

\* what the authorization server's token endpoint may answer to Exchange
ExchangeResults ==
    {[err |-> "oauth2: cannot fetch token", AccessToken |-> ""],
     [err |-> "", AccessToken |-> "at"]}

---------------------------------------------------------------------------
(* The state machine. *)

Init ==
    /\ s \in Servers
    /\ jar = NoCookies
    /\ pc = "idle"
    /\ handler = ""
    /\ req = NoRequest
    /\ w = NewResponseWriter
    /\ trace = NoTrace
    /\ upstream = NotRelayed

\* the server is given a request only when the client has none in flight
ServeAuthMiddleware ==
    \E m \in Methods, p \in Paths, a \in AuthorizationChoices, o \in OtherCookies :
        LET r == ClientRequest(m, p, a, o, NoValues, NoValues)
            out == AuthMiddleware(s, r)
        IN  /\ pc = "idle"
            /\ pc' = "responded"
            /\ handler' = "AuthMiddleware"
            /\ req' = r
            /\ w' = out.w
            /\ trace' = out.trace
            /\ upstream' = out.upstream
            /\ UNCHANGED <<s, jar>>

ServeToken ==
    \E tr \in TokenRequests :
        LET r == ClientRequest(tr.method, "/auth/token", NoHeader, "", tr.query, tr.form)
            out == Token(s, r)
        IN  /\ pc = "idle"
            /\ pc' = "responded"
            /\ handler' = "Token"
            /\ req' = r
            /\ w' = out.w
            /\ trace' = out.trace
            /\ upstream' = out.upstream
            /\ UNCHANGED <<s, jar>>

ServeLogin ==
    LET r == ClientRequest("GET", "/auth/login", NoHeader, "", NoValues, NoValues)
        out == Login(s, r)
    IN  /\ pc = "idle"
        /\ pc' = "responded"
        /\ handler' = "Login"
        /\ req' = r
        /\ w' = out.w
        /\ trace' = out.trace
        /\ upstream' = out.upstream
        /\ UNCHANGED <<s, jar>>

ServeCallback ==
    \E tok \in ExchangeResults :
        LET r == ClientRequest("GET", "/auth/callback", NoHeader, "",
                               "code" :> "c" @@ "state" :> "sessionID", NoValues)
            out == Callback(s, r, tok)
        IN  /\ pc = "idle"
            /\ pc' = "responded"
            /\ handler' = "Callback"
            /\ req' = r
            /\ w' = out.w
            /\ trace' = out.trace
            /\ upstream' = out.upstream
            /\ UNCHANGED <<s, jar>>

\* the client receives the response, stores its cookies, and is ready again
ClientReceive ==
    /\ pc = "responded"
    /\ pc' = "idle"
    /\ jar' = IF HeaderHas(Delivered(w).header, "Set-Cookie")
              THEN StoreCookies(jar, Delivered(w).header["Set-Cookie"])
              ELSE jar
    /\ handler' = ""
    /\ req' = NoRequest
    /\ w' = NewResponseWriter
    /\ trace' = NoTrace
    /\ upstream' = NotRelayed
    /\ UNCHANGED s

Next ==
    \/ ServeAuthMiddleware
    \/ ServeToken
    \/ ServeLogin
    \/ ServeCallback
    \/ ClientReceive

Spec == Init /\ [][Next]_vars

---------------------------------------------------------------------------
(* The properties.  They are stated of the states in which a response is   *)
(* out: req is the request, w the response, trace what the handler called. *)

\* handler h has served the request in flight
Served(h) == pc = "responded" /\ handler = h

\* the next handler was invoked
Forwarded == Len(trace.next) > 0

\* the Authorization header of the request handed to the next handler
ForwardedAuthorization == HeaderGet(trace.next[1].header, "Authorization")

\* the path is APIPath followed by at least one more character
UnderAPIPath(path) == Len(path) > Len(s.APIPath) /\ HasPrefix(path, s.APIPath)

\* the client received the 403 authorization error
IsForbidden ==
    /\ Delivered(w).status = 403
    /\ HasPrefix(Delivered(w).body, "{\"kind\": \"Status\", \"api\": \"ocgate\", \"status\": \"Forbidden\"")

\* what validateToken returns for the request in flight and its token
ValidationError ==
    validateToken(trace.token, s.JWTTokenKey, s.JWTTokenRSAKey, s.APIPath,
                  req.method, req.path)

\* a request in translate mode that carries a credential, to a path under APIPath
TranslateCase ==
    /\ Served("AuthMiddleware")
    /\ ~s.BearerTokenPassthrough
    /\ trace.token # ""
    /\ UnderAPIPath(req.path)

\* C1: in translate mode a request with a credential, to a path under APIPath
\* (APIPath followed by a suffix), reaches the next handler only if
\* validateToken returned no error for its token, method and path; when
\* validateToken returns an error the response is the 403 authorization error
\* and neither the next handler nor the upstream sees the request.
C1_FailClosed ==
    TranslateCase =>
        /\ Forwarded =>
              /\ ValidationError = ""
              /\ trace.validated = <<[token |-> trace.token, method |-> req.method,
                                      path |-> req.path, err |-> ""]>>
        /\ ValidationError # "" =>
              /\ IsForbidden
              /\ ~Forwarded
              /\ upstream.state = "none"

C1_Witness ==
    /\ TranslateCase
    /\ Len(trace.validated) = 1
    /\ trace.validated[1].err # ""
    /\ IsForbidden
    /\ ~Forwarded

\* the headers with which a client may present a credential: an Authorization
\* header or none, and a session cookie or none
CredentialHeaders ==
    {IF line = "" THEN a ELSE HeaderSet(a, "Cookie", line) :
        a \in AuthorizationChoices,
        line \in {"", ocgateSessionCookieName \o "=v", ocgateSessionCookieName \o "=g",
                  "other=v; " \o ocgateSessionCookieName \o "=r"}}

\* what the next handler is given as Authorization when the middleware, in the
\* current configuration, forwards the request out did: the header's values
AuthorizationGiven(out) ==
    IF Len(out.trace.next) > 0 /\ Len(out.trace.validated) > 0
    THEN out.trace.next[1].header["Authorization"]
    ELSE <<>>

\* C2: in translate mode every request under APIPath that passes verification
\* is handed to the next handler (and relayed) with the Authorization header
\* "Bearer <BearerToken>" and no other value; the header is not the caller's
\* credential; and the same request with any other credential that passes
\* verification is forwarded with the same header.
C2_OutboundIdentity ==
    (TranslateCase /\ Forwarded) =>
        /\ trace.next[1].header["Authorization"] = <<"Bearer " \o s.BearerToken>>
        /\ upstream.state = "relayed" =>
              upstream.header["Authorization"] = <<"Bearer " \o s.BearerToken>>
        /\ ForwardedAuthorization \notin
              {trace.token, "Bearer " \o trace.token,
               HeaderGet(req.header, "Authorization")}
        /\ \A h \in CredentialHeaders :
              AuthorizationGiven(AuthMiddleware(s, [req EXCEPT !.header = h]))
                  \in {<<>>, trace.next[1].header["Authorization"]}

\* a verified request whose credential came from the session cookie, and for
\* which another credential is verified too
C2_Witness ==
    /\ TranslateCase
    /\ Forwarded
    /\ trace.cookieRead
    /\ \E h \in CredentialHeaders :
          /\ GetRequestToken([req EXCEPT !.header = h]).token # trace.token
          /\ AuthorizationGiven(AuthMiddleware(s, [req EXCEPT !.header = h])) # <<>>

\* a request in pass-through mode, not for the login page, with a credential
PassthroughCase ==
    /\ Served("AuthMiddleware")
    /\ s.BearerTokenPassthrough
    /\ req.path # "/login.html"
    /\ GetRequestToken(req).token # ""

\* C3: in pass-through mode every request, other than for /login.html, from
\* which a non-empty credential T was extracted is passed to the next handler
\* with Authorization set to exactly "Bearer T", whatever its path, and
\* validateToken is not called.
C3_Passthrough ==
    PassthroughCase =>
        /\ Forwarded
        /\ trace.next[1] =
              [req EXCEPT !.header = HeaderSet(req.header, "Authorization",
                                               "Bearer " \o GetRequestToken(req).token)]
        /\ trace.validated = <<>>
        /\ ~w.wroteHeader

\* the credential came from the cookie and the path is not under APIPath
C3_Witness ==
    /\ PassthroughCase
    /\ trace.cookieRead
    /\ ~HasPrefix(req.path, s.APIPath)
    /\ Forwarded
    /\ ForwardedAuthorization = "Bearer v"

\* a request, not for the login page, from which no credential is extracted
MissingCredentialCase ==
    /\ Served("AuthMiddleware")
    /\ req.path # "/login.html"
    /\ GetRequestToken(req).token = ""

\* C4: a request whose path is not /login.html and that carries no credential
\* is answered with a 307 redirect to LoginEndpoint when InteractiveAuth is on
\* and with the 403 authorization error when it is off; the next handler is
\* not invoked and validateToken is not called, whatever the path and the
\* pass-through flag.
C4_MissingCredential ==
    MissingCredentialCase =>
        /\ ~Forwarded
        /\ trace.validated = <<>>
        /\ upstream.state = "none"
        /\ s.InteractiveAuth =>
              /\ Delivered(w).status = 307
              /\ HeaderHas(Delivered(w).header, "Location")
              /\ Delivered(w).header["Location"] = <<s.LoginEndpoint>>
        /\ ~s.InteractiveAuth => IsForbidden

\* no credential, pass-through on, a path under APIPath, interactive mode off
C4_Witness ==
    /\ MissingCredentialCase
    /\ s.BearerTokenPassthrough
    /\ ~s.InteractiveAuth
    /\ UnderAPIPath(req.path)
    /\ IsForbidden

\* C5: a request whose path is exactly /login.html is passed to the next
\* handler as it came (its Authorization header unchanged), with no redirect
\* and no 403, whatever InteractiveAuth, BearerTokenPassthrough and the
\* credential are; GetRequestToken is not called.
C5_LoginPage ==
    (Served("AuthMiddleware") /\ req.path = "/login.html") =>
        /\ trace.next = <<req>>
        /\ w = NewResponseWriter
        /\ ~trace.extracted
        /\ trace.validated = <<>>

\* the login page asked for without a credential, interactive mode on
C5_Witness ==
    /\ Served("AuthMiddleware")
    /\ req.path = "/login.html"
    /\ s.InteractiveAuth
    /\ ~s.BearerTokenPassthrough
    /\ GetRequestToken(req).token = ""
    /\ Forwarded

\* the tokens a request may hold after "Bearer "
BearerTokens == WellFormedTokens \cup SubmittedTokens

\* C6: for every request whose Authorization header is "Bearer " followed by
\* a non-empty string X, GetRequestToken returns exactly X (and so does the
\* middleware's call of it), whatever the session cookie is.
C6_HeaderFirst ==
    pc = "responded" =>
        \A X \in BearerTokens :
            (/\ X # ""
             /\ HeaderHas(req.header, "Authorization")
             /\ req.header["Authorization"] = <<"Bearer " \o X>>) =>
                /\ GetRequestToken(req).token = X
                /\ GetRequestToken(req).err = ""
                /\ trace.extracted => trace.token = X

\* a bearer header beside a session cookie that holds another, non-empty value
C6_Witness ==
    /\ Served("AuthMiddleware")
    /\ HeaderGet(req.header, "Authorization") = "Bearer g"
    /\ ocgateSessionCookieName \in DOMAIN jar
    /\ jar[ocgateSessionCookieName] = "v"
    /\ trace.extracted
    /\ trace.token = "g"

\* the value of a cookie the client holds as raw: the text within the quotes
\* when it is quoted, else the text
CookieValue(raw) ==
    IF Len(raw) >= 2 /\ CharAt(raw, 0) = "\"" /\ CharAt(raw, Len(raw) - 1) = "\""
    THEN Slice(raw, 1, Len(raw) - 1)
    ELSE raw

\* the client holds a session cookie that is not empty
HoldsSession ==
    /\ ocgateSessionCookieName \in DOMAIN jar
    /\ CookieValue(jar[ocgateSessionCookieName]) # ""

\* C7: for every request with no Authorization header, GetRequestToken returns
\* the value of the cookie named ocgate-session-token when the request has
\* that cookie and it is not empty, and the empty token when the cookie is
\* absent or empty.
C7_CookieFallback ==
    (pc = "responded" /\ ~HeaderHas(req.header, "Authorization")) =>
        /\ HoldsSession =>
              /\ GetRequestToken(req).token = CookieValue(jar[ocgateSessionCookieName])
              /\ GetRequestToken(req).err = ""
        /\ ~HoldsSession => GetRequestToken(req).token = ""
        /\ trace.extracted => trace.token = GetRequestToken(req).token

\* no Authorization header, the session cookie sent after another cookie
C7_Witness ==
    /\ Served("AuthMiddleware")
    /\ ~HeaderHas(req.header, "Authorization")
    /\ HeaderGet(req.header, "Cookie") = "other=v; " \o ocgateSessionCookieName \o "=v"
    /\ trace.extracted
    /\ trace.token = "v"

\* an authorized request to APIPath followed by a suffix was forwarded
AuthorizedUnderAPIPath ==
    /\ Served("AuthMiddleware")
    /\ UnderAPIPath(req.path)
    /\ Forwarded
    /\ trace.token # ""
    /\ s.BearerTokenPassthrough \/ Len(trace.validated) = 1

\* the suffix of the request's path after APIPath
Suffix == Slice(req.path, Len(s.APIPath), Len(req.path))

\* the original path with the APIPath prefix removed and a single leading slash
StrippedPath == IF HasPrefix(Suffix, "/") THEN Suffix ELSE "/" \o Suffix

\* C8 as the spec states it: every authorized request to APIPath followed by a
\* suffix is relayed with the upstream's scheme and host and with the path
\* equal to the original path without the APIPath prefix, one leading slash
\* retained, whether or not APIPath ends with a slash.
C8_RewriteAnyAPIPath ==
    AuthorizedUnderAPIPath =>
        /\ upstream.state = "relayed"
        /\ upstream.Scheme = "https"
        /\ upstream.Host = "kubernetes.default.svc"
        /\ upstream.Path = StrippedPath

\* C8 (amended): when APIPath ends with a slash, every authorized request to
\* APIPath followed by a suffix is relayed with the upstream's scheme and host
\* and with the path "/" followed by that suffix.
C8_RewriteSlashAPIPath ==
    (AuthorizedUnderAPIPath /\ HasSuffix(s.APIPath, "/")) =>
        /\ upstream.state = "relayed"
        /\ upstream.Scheme = "https"
        /\ upstream.Host = "kubernetes.default.svc"
        /\ upstream.Path = "/" \o Suffix

\* a verified request to /k8s/pods relayed as /pods with the operator token
C8_Witness ==
    /\ AuthorizedUnderAPIPath
    /\ HasSuffix(s.APIPath, "/")
    /\ ~s.BearerTokenPassthrough
    /\ req.path = "/k8s/pods"
    /\ upstream.state = "relayed"
    /\ upstream.Path = "/pods"
    /\ HeaderGet(upstream.header, "Authorization") = "Bearer K"

\* C9: every authorization-error response of handleError reaches the client
\* with status 403 and with the header Content-Type: application/json.
C9_ErrorIsJSON ==
    (pc = "responded" /\ Delivered(w).status = 403) =>
        /\ HeaderHas(Delivered(w).header, "Content-Type")
        /\ Delivered(w).header["Content-Type"] = <<"application/json">>

\* the token of a submission: the query's for a GET, the form's for a POST
SubmittedToken ==
    IF req.method = "GET" THEN ValuesGet(req.query, "token")
    ELSE IF req.method = "POST" THEN ValuesGet(req.form, "token")
    ELSE ""

\* the then parameter of a submission: the query's for a GET; for a POST the
\* form's, or the query's when the form has none
SubmittedThen ==
    IF req.method = "GET" THEN ValuesGet(req.query, "then")
    ELSE IF "then" \in DOMAIN req.form THEN req.form["then"]
    ELSE ValuesGet(req.query, "then")

\* the Token handler served a GET or a POST that holds a non-empty token
SubmissionCase == Served("Token") /\ SubmittedToken # ""

\* the Set-Cookie lines and the Location the client received
ReceivedCookies ==
    IF HeaderHas(Delivered(w).header, "Set-Cookie")
    THEN Delivered(w).header["Set-Cookie"]
    ELSE <<>>

ReceivedLocation == HeaderGet(Delivered(w).header, "Location")

\* the response sets the session cookie, and nothing else, to value
SetsSessionTo(value) ==
    /\ Len(ReceivedCookies) = 1
    /\ SetCookieName(ReceivedCookies[1]) = ocgateSessionCookieName
    /\ CookieValue(SetCookieRawValue(ReceivedCookies[1])) = value

\* C10 as the spec states it: for every GET with a non-empty query parameter
\* token and every POST with a non-empty form field token, the Token handler
\* sets the session cookie to exactly that token and answers 302 to the value
\* of then, or to / when then is empty or absent, the cookie being among the
\* headers sent with the status.
C10_TokenAnyInput ==
    SubmissionCase =>
        /\ Delivered(w).status = 302
        /\ SetsSessionTo(SubmittedToken)
        /\ ReceivedLocation = (IF SubmittedThen = "" THEN "/" ELSE SubmittedThen)

\* the string holds only bytes a cookie value may hold
RECURSIVE CookieSafe(_)
CookieSafe(str) ==
    \/ str = ""
    \/ /\ CharAt(str, 0) \notin {"\"", ";", "\\"}
       /\ CookieSafe(Slice(str, 1, Len(str)))

\* the target is an absolute URL, or an absolute path without a query and
\* without an empty, "." or ".." element: http.Redirect sends such a target as it is
NormalTarget(target) ==
    \/ HasPrefix(target, "https://")
    \/ HasPrefix(target, "http://")
    \/ /\ HasPrefix(target, "/")
       /\ IndexByte(target, "?") < 0
       /\ \A i \in 2..Len(PathElements(target)) :
             PathElements(target)[i] \notin {"", ".", ".."}

\* C10 (amended): for every GET with a non-empty query parameter token and
\* every POST with a non-empty form field token, the Token handler sets the
\* session cookie and answers 302, the cookie being among the headers sent
\* with the status; the cookie's value is exactly the token when the token
\* holds only bytes a cookie value may hold; the Location is / when then is
\* empty or absent, and the value of then when that is an absolute URL or a
\* clean absolute path.
C10_TokenSafeInput ==
    SubmissionCase =>
        /\ Delivered(w).status = 302
        /\ Len(ReceivedCookies) = 1
        /\ SetCookieName(ReceivedCookies[1]) = ocgateSessionCookieName
        /\ CookieSafe(SubmittedToken) => SetsSessionTo(SubmittedToken)
        /\ SubmittedThen = "" => ReceivedLocation = "/"
        /\ NormalTarget(SubmittedThen) => ReceivedLocation = SubmittedThen

\* a POST of a token that ends with a space, with the target /dash
C10_Witness ==
    /\ SubmissionCase
    /\ req.method = "POST"
    /\ SubmittedToken = "v "
    /\ SubmittedThen = "/dash"
    /\ Delivered(w).status = 302
    /\ SetsSessionTo("v ")
    /\ ReceivedLocation = "/dash"

---------------------------------------------------------------------------
(* Manual token submission: rejection. *)

\* the token the Token handler takes from the request in flight: the query's
\* for a GET, the first of the form's and the query's for a POST, none for
\* any other method
TakenToken ==
    IF req.method = "GET" THEN ValuesGet(req.query, "token")
    ELSE IF req.method = "POST" THEN FormValue(req, "token")
    ELSE ""

\* the response is a 4xx error that redirects nowhere and sets no cookie, and
\* the client's cookies after it are the ones it had
Rejected ==
    /\ Delivered(w).status \in 400..499
    /\ ~HeaderHas(Delivered(w).header, "Location")
    /\ ReceivedCookies = <<>>
    /\ StoreCookies(jar, ReceivedCookies) = jar

\* C11 as the spec states it: a GET without a token query parameter, a POST
\* without a token form field, and a request of any other method are answered
\* by the Token handler with a 4xx error, no redirect and no session cookie,
\* the cookie the caller holds being left as it is.
C11_RejectWithoutField ==
    (Served("Token") /\ SubmittedToken = "") => Rejected

\* C11 (amended): when the token the Token handler takes is empty (a GET with
\* no token in the query, a POST with no token in the form nor in the query,
\* or any other method), the handler answers with a 4xx error, issues no
\* redirect and sets no session cookie, so the cookie the caller holds is
\* left as it is.
C11_RejectEmptyTaken ==
    (Served("Token") /\ TakenToken = "") => Rejected

\* a PUT that names a token, from a caller that holds a session
C11_Witness ==
    /\ Served("Token")
    /\ req.method = "PUT"
    /\ ValuesGet(req.query, "token") = "v"
    /\ HoldsSession
    /\ IsForbidden
    /\ Rejected

---------------------------------------------------------------------------
(* Start-login clears the session. *)

\* the client's cookies once it has received the response in flight
AfterReceipt == StoreCookies(jar, ReceivedCookies)

\* the value of the session cookie among cookies, empty when there is none
SessionOf(cookies) ==
    IF ocgateSessionCookieName \in DOMAIN cookies
    THEN CookieValue(cookies[ocgateSessionCookieName])
    ELSE ""

\* a request without Authorization header from a client that holds cookies
RequestWith(line, method, path) ==
    [method |-> method, path |-> path,
     header |-> IF line = "" THEN NoHeader ELSE HeaderSet(NoHeader, "Cookie", line),
     query |-> NoValues, form |-> NoValues]

\* out is the answer the middleware gives a request without credential
NoCredentialAnswer(out) ==
    /\ out.trace.next = <<>>
    /\ out.trace.validated = <<>>
    /\ out.trace.token = ""
    /\ IF s.InteractiveAuth
       THEN /\ Delivered(out.w).status = 307
            /\ HeaderGet(Delivered(out.w).header, "Location") = s.LoginEndpoint
       ELSE Delivered(out.w).status = 403

\* C12: every call of Login, whatever session cookie the caller holds (one
\* with a credential, an empty one left by an earlier Login, or none), sets
\* the session cookie to the empty value among the headers of its 302 redirect
\* to the authorization server; the caller's session cookie is empty once the
\* response is received, and the middleware answers the caller's next request
\* without Authorization header (to any path but the login page, which is
\* always served) as one without credential: 307 to LoginEndpoint or 403.
C12_LoginClears ==
    Served("Login") =>
        /\ Delivered(w).status = 302
        /\ ReceivedLocation = AuthCodeURL(s.Auth2Config, "sessionID")
        /\ SetsSessionTo("")
        /\ SessionOf(AfterReceipt) = ""
        /\ \A m \in Methods, p \in Paths \ {"/login.html"}, o \in OtherCookies :
              NoCredentialAnswer(
                  AuthMiddleware(s, RequestWith(CookieLine(AfterReceipt, o), m, p)))

\* Login called by a caller whose session cookie holds a credential
C12_Witness ==
    /\ Served("Login")
    /\ HoldsSession
    /\ SessionOf(jar) = "v"
    /\ SetsSessionTo("")
    /\ SessionOf(AfterReceipt) = ""

---------------------------------------------------------------------------
(* Callback fails closed. *)

\* the Set-Cookie lines of a response
CookiesOf(rw) ==
    IF HeaderHas(Delivered(rw).header, "Set-Cookie")
    THEN Delivered(rw).header["Set-Cookie"]
    ELSE <<>>

\* rw is the answer to a failed exchange: 401 with LoginEndpoint as Location
\* and no cookie, so that the client's cookies stay the ones it had
FailedLogin(rw) ==
    /\ Delivered(rw).status = 401
    /\ HeaderGet(Delivered(rw).header, "Location") = s.LoginEndpoint
    /\ CookiesOf(rw) = <<>>
    /\ StoreCookies(jar, CookiesOf(rw)) = jar

\* rw is the answer to an exchange that returned token: 302 to / with the
\* session cookie set to the token
CompletedLogin(rw, token) ==
    /\ Delivered(rw).status = 302
    /\ HeaderGet(Delivered(rw).header, "Location") = "/"
    /\ Len(CookiesOf(rw)) = 1
    /\ SetCookieName(CookiesOf(rw)[1]) = ocgateSessionCookieName
    /\ CookieValue(SetCookieRawValue(CookiesOf(rw)[1])) = token
    /\ SessionOf(StoreCookies(jar, CookiesOf(rw))) = token

\* C13: the response of Callback is its answer to one of the results of the
\* exchange; to an exchange that returned an error it answers 401 with the
\* Location LoginEndpoint and sets no session cookie, so that the caller's
\* cookies are the ones it had; only to an exchange that succeeded does it
\* answer 302 to / with the session cookie set to the access token returned.
C13_CallbackFailsClosed ==
    Served("Callback") =>
        /\ \E tok \in ExchangeResults : w = Callback(s, req, tok).w
        /\ \A tok \in ExchangeResults :
              /\ tok.err # "" => FailedLogin(Callback(s, req, tok).w)
              /\ tok.err = "" => CompletedLogin(Callback(s, req, tok).w, tok.AccessToken)
        /\ CookiesOf(w) # <<>> => Delivered(w).status = 302

\* the exchange failed for a caller that holds no session: it holds none afterwards
C13_Witness ==
    /\ Served("Callback")
    /\ FailedLogin(w)
    /\ SessionOf(jar) = ""
    /\ SessionOf(AfterReceipt) = ""

---------------------------------------------------------------------------
(* Paths outside APIPath. *)

\* the middleware served a request whose path does not begin with APIPath
OutsideCase == Served("AuthMiddleware") /\ ~HasPrefix(req.path, s.APIPath)

\* C14 as the spec states it: every request whose path is neither under
\* APIPath nor an authentication endpoint is passed to the next handler,
\* with or without credential and whatever InteractiveAuth is.
C14_OutsideAlwaysServed ==
    OutsideCase => Forwarded

\* C14 (amended): a request whose path does not begin with APIPath is passed
\* to the next handler, without a call of validateToken and whatever
\* InteractiveAuth is, when it carries a credential or is for the login page:
\* with its headers unchanged in translate mode and for the login page, with
\* Authorization set to its own token in pass-through mode. Without a
\* credential it is passed on only when it is for the login page; any other
\* is answered 307 or 403 and not passed on.
C14_OutsideWithCredential ==
    OutsideCase =>
        /\ trace.validated = <<>>
        /\ Forwarded <=> (req.path = "/login.html" \/ GetRequestToken(req).token # "")
        /\ Forwarded /\ (req.path = "/login.html" \/ ~s.BearerTokenPassthrough) =>
              trace.next = <<req>>
        /\ Forwarded /\ req.path # "/login.html" /\ s.BearerTokenPassthrough =>
              trace.next = <<WithBearer(req, GetRequestToken(req).token)>>
        /\ ~Forwarded => Delivered(w).status = (IF s.InteractiveAuth THEN 307 ELSE 403)

\* translate mode, interactive mode on: /index.html asked for with an expired
\* token is passed on as it came
C14_Witness ==
    /\ OutsideCase
    /\ req.path = "/index.html"
    /\ ~s.BearerTokenPassthrough
    /\ s.InteractiveAuth
    /\ trace.token = "e"
    /\ trace.next = <<req>>

---------------------------------------------------------------------------
(* The boundary of the protected prefix. *)

\* the middleware, in translate mode, served a request with a credential that
\* is not for the login page
CredentialCase ==
    /\ Served("AuthMiddleware")
    /\ ~s.BearerTokenPassthrough
    /\ req.path # "/login.html"
    /\ trace.token # ""

\* the request was passed on as it came, validateToken not having been called
PassedUnverified == trace.validated = <<>> /\ trace.next = <<req>>

\* C15: in translate mode a request with a credential is passed to the next
\* handler without a call of validateToken and with its Authorization header
\* unchanged if and only if its path does not begin with APIPath; a request
\* whose path begins with APIPath, the path equal to APIPath included, is
\* verified before it is forwarded.
C15_PrefixBoundary ==
    CredentialCase =>
        /\ PassedUnverified <=> ~HasPrefix(req.path, s.APIPath)
        /\ HasPrefix(req.path, s.APIPath) => Len(trace.validated) = 1

\* the request for the path equal to APIPath, with an expired token, is
\* passed on unverified
C15_BoundaryReached ==
    /\ CredentialCase
    /\ req.path = s.APIPath
    /\ trace.token = "e"
    /\ PassedUnverified

---------------------------------------------------------------------------
(* The Bearer prefix at the empty remainder. *)

\* the Authorization header of the request in flight
SentAuthorization == HeaderGet(req.header, "Authorization")

\* the middleware served a request whose Authorization header begins with "Bearer "
BearerPrefixCase ==
    /\ Served("AuthMiddleware")
    /\ HasPrefix(SentAuthorization, "Bearer ")

\* C16: for every request whose Authorization header begins with the seven
\* characters "Bearer ", the header of exactly those seven characters
\* included, GetRequestToken returns the rest of the header's value and does
\* not read the session cookie.
C16_BearerRemainder ==
    BearerPrefixCase =>
        /\ GetRequestToken(req).token = Slice(SentAuthorization, 7, Len(SentAuthorization))
        /\ ~GetRequestToken(req).cookieRead
        /\ trace.extracted => trace.token = Slice(SentAuthorization, 7, Len(SentAuthorization))

\* the header is exactly "Bearer " and the token returned is the session cookie's
C16_EmptyRemainderReached ==
    /\ BearerPrefixCase
    /\ SentAuthorization = "Bearer "
    /\ HoldsSession
    /\ trace.extracted
    /\ trace.token = SessionOf(jar)
    /\ trace.cookieRead

---------------------------------------------------------------------------
(* Verification failures as the caller sees them. *)

\* out is the middleware's answer to a request whose verification failed
VerificationFailed(out) ==
    /\ Len(out.trace.validated) = 1
    /\ out.trace.validated[1].err # ""

\* the middleware's answer, in the current configuration, to the request for
\* path with the Authorization header authorization and no cookie
AnswerTo(method, path, authorization) ==
    AuthMiddleware(s, [method |-> method, path |-> path, header |-> authorization,
                       query |-> NoValues, form |-> NoValues])

\* the verification of the request in flight failed
FailedCase ==
    /\ TranslateCase
    /\ Len(trace.validated) = 1
    /\ trace.validated[1].err # ""

\* C17: any two requests under APIPath in translate mode whose verification
\* fails, for whatever reasons, receive 403 responses that are the same in
\* status, headers and body, the message included: the message does not
\* depend on the error validateToken returned.
C17_SameFailure ==
    FailedCase =>
        \A m \in Methods, p \in Paths, a \in AuthorizationChoices :
            VerificationFailed(AnswerTo(m, p, a)) =>
                Delivered(AnswerTo(m, p, a).w) = Delivered(w)

\* the verification of an expired token failed, and the 403 says so
C17_ReasonReached ==
    /\ FailedCase
    /\ trace.token = "e"
    /\ trace.validated[1].err = "Token is expired"
    /\ IsForbidden
    /\ Delivered(w).body # Delivered(AnswerTo("DELETE", "/k8s/pods",
                                 HeaderSet(NoHeader, "Authorization", "Bearer g")).w).body

---------------------------------------------------------------------------
(* The forwarder's rewrite on what the middleware lets through. *)

\* C18: for every request the middleware passes to the next handler (the
\* login page, any path in pass-through mode, a path outside APIPath in
\* translate mode, a verified path under APIPath), the slice
\* r.URL.Path[len(APIPath)-1:] of APIProxy is within bounds and the
\* rewritten path begins with a slash.
C18_RewriteDefined ==
    (Served("AuthMiddleware") /\ Forwarded) =>
        /\ upstream.state = "relayed"
        /\ HasPrefix(upstream.URLPath, "/")

\* pass-through mode: the request for / is passed on and the slice is out of range
C18_PanicReached ==
    /\ Served("AuthMiddleware")
    /\ Forwarded
    /\ s.BearerTokenPassthrough
    /\ s.APIPath = "/k8s/"
    /\ req.path = "/"
    /\ upstream.state = "panic"

\* the login page is passed on and rewritten to a path without leading slash
C18_LoginPageRewritten ==
    /\ Served("AuthMiddleware")
    /\ Forwarded
    /\ s.APIPath = "/k8s/"
    /\ req.path = "/login.html"
    /\ upstream.state = "relayed"
    /\ upstream.URLPath = "in.html"

---------------------------------------------------------------------------
(* Concurrent requests.  The server runs the handler AuthMiddleware returns *)
(* once per request, each run in its own goroutine; a run is the sequence  *)
(* of the handler's statements, and the runs interleave freely.  Here the  *)
(* variables hold one value per request: req[i] the request as it arrived  *)
(* and as the handler holds it now, pc[i] the statement the run is at.     *)

MaxConcurrent == 2

Requests == 1..MaxConcurrent

\* the configurations of the concurrent runs: the HMAC key, APIPath /k8s/
ConcurrentServers ==
    {srv \in Servers : srv.APIPath = "/k8s/" /\ srv.JWTTokenKey = "secret"}

\* the requests that arrive: the login page, a page without credential, a
\* page with one, and API requests with a valid, an expired and a scoped
\* token and with a session cookie
ArrivingRequests ==
    {[method |-> "GET", path |-> "/login.html", header |-> NoHeader,
      query |-> NoValues, form |-> NoValues],
     [method |-> "GET", path |-> "/", header |-> NoHeader,
      query |-> NoValues, form |-> NoValues],
     [method |-> "GET", path |-> "/index.html",
      header |-> HeaderSet(NoHeader, "Authorization", "Bearer e"),
      query |-> NoValues, form |-> NoValues],
     [method |-> "GET", path |-> "/k8s/pods",
      header |-> HeaderSet(NoHeader, "Authorization", "Bearer v"),
      query |-> NoValues, form |-> NoValues],
     [method |-> "DELETE", path |-> "/k8s/pods",
      header |-> HeaderSet(NoHeader, "Authorization", "Bearer g"),
      query |-> NoValues, form |-> NoValues],
     [method |-> "GET", path |-> "/k8s/pods",
      header |-> HeaderSet(NoHeader, "Cookie", ocgateSessionCookieName \o "=e"),
      query |-> NoValues, form |-> NoValues]}

InitConcurrent ==
    /\ s \in ConcurrentServers
    /\ jar = NoCookies
    /\ handler = [i \in Requests |-> "AuthMiddleware"]
    /\ pc = [i \in Requests |-> "start"]
    /\ req \in [Requests -> {[arrived |-> r, now |-> r] : r \in ArrivingRequests}]
    /\ w = [i \in Requests |-> NewResponseWriter]
    /\ trace = [i \in Requests |-> NoTrace]
    /\ upstream = [i \in Requests |-> NotRelayed]

\* r.Header.Set("Authorization", ...) of run i, as if the requests shared one header
HeaderWrittenShared(reqs, i, token) ==
    [j \in DOMAIN reqs |-> [reqs[j] EXCEPT !.now = WithBearer(@, token)]]

\* r.Header.Set("Authorization", ...) of run i: the header of its own request
HeaderWritten(reqs, i, token) ==
    [reqs EXCEPT ![i].now = WithBearer(@, token)]

\* run i ends with the answer out
Ended(i, out) ==
    /\ pc' = [pc EXCEPT ![i] = "done"]
    /\ w' = [w EXCEPT ![i] = out.w]
    /\ trace' = [trace EXCEPT ![i] = out.trace]
    /\ upstream' = [upstream EXCEPT ![i] = out.upstream]

\* run i goes on to the statement at label, its trace being tr
GoesOn(i, label, tr) ==
    /\ pc' = [pc EXCEPT ![i] = label]
    /\ trace' = [trace EXCEPT ![i] = tr]
    /\ UNCHANGED <<w, upstream>>

\* the test of the login page
CheckLoginPage(i) ==
    /\ pc[i] = "start"
    /\ IF req[i].now.path = "/login.html"
       THEN Ended(i, ServeNext(s, w[i], req[i].now, trace[i]))
       ELSE GoesOn(i, "extract", trace[i])
    /\ UNCHANGED <<s, jar, handler, req>>

\* token, _ := GetRequestToken(r)
ExtractToken(i) ==
    /\ pc[i] = "extract"
    /\ GoesOn(i, "decide", TraceExtracted(GetRequestToken(req[i].now)))
    /\ UNCHANGED <<s, jar, handler, req>>

\* the tests of the token, of the pass-through flag and of the path
Decide(i) ==
    /\ pc[i] = "decide"
    /\ IF s.InteractiveAuth /\ trace[i].token = ""
       THEN Ended(i, Answer(Redirect(w[i], req[i].now, s.LoginEndpoint, 307), trace[i]))
       ELSE IF trace[i].token = ""
       THEN Ended(i, Answer(handleError(w[i], "no token received"), trace[i]))
       ELSE IF s.BearerTokenPassthrough
       THEN GoesOn(i, "rewrite", trace[i])
       ELSE IF Len(req[i].now.path) <= Len(s.APIPath)
               \/ Slice(req[i].now.path, 0, Len(s.APIPath)) # s.APIPath
       THEN Ended(i, ServeNext(s, w[i], req[i].now, trace[i]))
       ELSE GoesOn(i, "validate", trace[i])
    /\ UNCHANGED <<s, jar, handler, req>>

\* run i after validateToken returned err
Verified(i, err) ==
    IF err # ""
    THEN Ended(i, Answer(handleError(w[i], err),
                         TraceValidated(trace[i], req[i].now, trace[i].token, err)))
    ELSE GoesOn(i, "rewrite", TraceValidated(trace[i], req[i].now, trace[i].token, err))

\* _, err := validateToken(...) and the test of err
Verify(i) ==
    /\ pc[i] = "validate"
    /\ Verified(i, validateToken(trace[i].token, s.JWTTokenKey, s.JWTTokenRSAKey,
                                 s.APIPath, req[i].now.method, req[i].now.path))
    /\ UNCHANGED <<s, jar, handler, req>>

\* r.Header.Set("Authorization", ...): the caller's token in pass-through
\* mode, the operator token after verification
SetAuthorization(i) ==
    /\ pc[i] = "rewrite"
    /\ req' = HeaderWritten(req, i, IF s.BearerTokenPassthrough THEN trace[i].token
                                    ELSE s.BearerToken)
    /\ pc' = [pc EXCEPT ![i] = "forward"]
    /\ UNCHANGED <<s, jar, handler, w, trace, upstream>>

\* next.ServeHTTP(w, r)
CallNext(i) ==
    /\ pc[i] = "forward"
    /\ Ended(i, ServeNext(s, w[i], req[i].now, trace[i]))
    /\ UNCHANGED <<s, jar, handler, req>>

NextConcurrent ==
    \/ \E i \in Requests : CheckLoginPage(i)
    \/ \E i \in Requests : ExtractToken(i)
    \/ \E i \in Requests : Decide(i)
    \/ \E i \in Requests : Verify(i)
    \/ \E i \in Requests : SetAuthorization(i)
    \/ \E i \in Requests : CallNext(i)

SpecConcurrent == InitConcurrent /\ [][NextConcurrent]_vars

\* the answer of the handler to the request of run i when it is handled alone
Alone(i) == AuthMiddleware(s, req[i].arrived)

\* run i has ended with the outcome it has alone
SameAsAlone(i) ==
    /\ w[i] = Alone(i).w
    /\ trace[i] = Alone(i).trace
    /\ upstream[i] = Alone(i).upstream

\* in run i extraction came before verification, and verification before
\* the forwarding of a request under APIPath in translate mode
InOrder(i) ==
    /\ trace[i].validated # <<>> => trace[i].extracted
    /\ trace[i].next # <<>> /\ req[i].arrived.path # "/login.html" => trace[i].extracted
    /\ (trace[i].next # <<>> /\ ~s.BearerTokenPassthrough /\ UnderAPIPath(req[i].arrived.path))
          => (Len(trace[i].validated) = 1 /\ trace[i].validated[1].err = "")

\* a step leaves the configuration as it is, and leaves every run that did
\* not take it as it is: its request, its response, its trace
OwnStateOnly ==
    /\ s' = s
    /\ \A i \in Requests :
          pc'[i] = pc[i] =>
              /\ req'[i] = req[i]
              /\ w'[i] = w[i]
              /\ trace'[i] = trace[i]
              /\ upstream'[i] = upstream[i]

\* C19: with the requests handled concurrently and their steps interleaved in
\* any order, every request that has been answered has the outcome (redirect,
\* 403, or forwarded with a given Authorization header) it has when handled
\* alone in the same configuration; in every run extraction precedes
\* verification, which precedes forwarding; and no step changes the
\* configuration or the state of another request.
C19_Independent ==
    /\ [](\A i \in Requests : InOrder(i) /\ (pc[i] = "done" => SameAsAlone(i)))
    /\ [][OwnStateOnly]_vars

\* pass-through mode: two requests with different tokens have both been
\* forwarded, each with its own token
C19_Witness ==
    /\ s.BearerTokenPassthrough
    /\ pc[1] = "done" /\ pc[2] = "done"
    /\ trace[1].token = "v" /\ trace[2].token = "g"
    /\ HeaderGet(trace[1].next[1].header, "Authorization") = "Bearer v"
    /\ HeaderGet(trace[2].next[1].header, "Authorization") = "Bearer g"

=============================================================================
